---- MODULE Spec2Model ----
(***************************************************************************)
(* The per-role API privilege toggle of the table editor (ApiAccessToggle),*)
(* the query mapping it reads (mapPrivilegesToApiAccess) and the mutation  *)
(* that writes the grants (updateTableApiAccessPrivileges).                *)
(*                                                                         *)
(* A step of the model is one event of the single-threaded UI: a handler   *)
(* call or a query result, followed by the re-render and the effects React *)
(* commits before the next event is handled.                               *)
(***************************************************************************)
EXTENDS Integers, Sequences, FiniteSets, TLC

\* ------------------------------------------------------------------ bounds
\* Longest privilege list of one role (a list may repeat a kind: the grants
\* of a relation hold one row per grantor, and nothing in the code dedupes).
MaxLen == 5
\* Rows of other grantees / other privilege kinds mixed into a fetched list.
MaxNoise == 2

\* ------------------------------------------------------- fixed vocabularies
API_ACCESS_ROLES == <<"anon", "authenticated">>

API_PRIVILEGE_TYPES == <<"SELECT", "INSERT", "UPDATE", "DELETE">>

Roles == {API_ACCESS_ROLES[i] : i \in 1..Len(API_ACCESS_ROLES)}

Kinds == {API_PRIVILEGE_TYPES[i] : i \in 1..Len(API_PRIVILEGE_TYPES)}

\* JavaScript `undefined` for an optional value; a present value v is <<v>>.
None == <<>>

Some(v) == <<v>>

\* a ?? b on optional values.
Coalesce(a, b) == IF a # None THEN a ELSE b

\* Array.prototype.includes
Includes(s, x) == \E i \in 1..Len(s) : s[i] = x

\* ------------------------------------------------------------ input domains
\* Privilege lists of one role: the first n kinds of SELECT, INSERT, UPDATE,
\* DELETE, SELECT, ... for n up to MaxLen (beyond four the list repeats kinds).
KindSeqs ==
  {[i \in 1..n |-> API_PRIVILEGE_TYPES[((i - 1) % Len(API_PRIVILEGE_TYPES)) + 1]] :
     n \in 0..MaxLen}

RolePrivSets == [Roles -> KindSeqs]

\* Grant rows of the privileges query that the toggle must ignore.
NoiseRows ==
  << [grantee |-> "postgres", privilege_type |-> "SELECT"],
     [grantee |-> "anon", privilege_type |-> "TRUNCATE"],
     [grantee |-> "authenticated", privilege_type |-> "REFERENCES"],
     [grantee |-> "service_role", privilege_type |-> "TRIGGER"] >>

RowsOf(role, kinds) ==
  [i \in 1..Len(kinds) |-> [grantee |-> role, privilege_type |-> kinds[i]]]

Min(a, b) == IF a < b THEN a ELSE b

\* The grant rows of one relation: the rows of both roles around k foreign rows.
GrantList(p, k) ==
  RowsOf("anon", p["anon"])
    \o SubSeq(NoiseRows, 1, Min(k, Len(NoiseRows)))
    \o RowsOf("authenticated", p["authenticated"])

\* The relation the toggle is shown for and another relation of the project.
OtherEntry ==
  [relation_id |-> 9, schema |-> "public", name |-> "other",
   privileges |-> RowsOf("anon", API_PRIVILEGE_TYPES)]

TargetEntry(g) ==
  [relation_id |-> 7, schema |-> "public", name |-> "t", privileges |-> g]

\* Results of the project-wide table privileges query: with and without the
\* relation and the other relation, in either order.
PrivilegesData ==
  {<<>>, <<OtherEntry>>}
    \cup {<<TargetEntry(GrantList(p, k))>> : p \in RolePrivSets, k \in 0..MaxNoise}
    \cup {<<OtherEntry, TargetEntry(GrantList(p, k))>> :
            p \in RolePrivSets, k \in 0..MaxNoise}
    \cup {<<TargetEntry(GrantList(p, k)), OtherEntry>> :
            p \in RolePrivSets, k \in 0..MaxNoise}

\* relationId of the query: table?.id ?? tableFields.id, 0 when there is none.
RelationIds == {0, 7}

\* --------------------------------------------- table-api-access-query (pure)
\* data.find(...): the first entry for the relation, by id when the id is
\* truthy and by schema and name otherwise; None when there is none.
FindTarget(data, relationId, schema, tableName) ==
  LET Matches(e) == IF relationId # 0
                    THEN e.relation_id = relationId
                    ELSE e.schema = schema /\ e.name = tableName
      hits == {i \in 1..Len(data) : Matches(data[i])}
  IN  IF hits = {} THEN None
      ELSE Some(data[CHOOSE i \in hits : \A j \in hits : i <= j])

\* Mutant: kinds that are not API privilege kinds are kept.
RolePrivilegesUnfiltered(allPrivileges, role) ==
  LET ofRole == SelectSeq(allPrivileges, LAMBDA p : p.grantee = role)
  IN  [i \in 1..Len(ofRole) |-> ofRole[i].privilege_type]

\* The rows of one role, as privilege kinds, without the kinds that are not
\* API privilege kinds.
RolePrivilegesOf(allPrivileges, role) ==
  LET ofRole == SelectSeq(allPrivileges, LAMBDA p : p.grantee = role)
      mapped == [i \in 1..Len(ofRole) |-> ofRole[i].privilege_type]
  IN  SelectSeq(mapped, LAMBDA k : Includes(API_PRIVILEGE_TYPES, k))

mapPrivilegesToApiAccess(data, relationId, schema, tableName) ==
  LET target == FindTarget(data, relationId, schema, tableName)
      allPrivileges == IF target = None THEN <<>> ELSE target[1].privileges
      privilegesPerRole == [r \in Roles |-> RolePrivilegesOf(allPrivileges, r)]
  IN  [hasApiAccess |-> Len(privilegesPerRole["anon"]) > 0
                          \/ Len(privilegesPerRole["authenticated"]) > 0,
       privileges |-> privilegesPerRole]

\* What select can hand the component: the mapping of every query result.
FetchResults ==
  {mapPrivilegesToApiAccess(data, relationId, "public", "t") :
     data \in PrivilegesData, relationId \in RelationIds}

\* ------------------------------------------------- ApiAccessToggle (render)
createDefaultRolePrivileges ==
  [r \in Roles |-> API_PRIVILEGE_TYPES]

emptyPrivileges == [r \in Roles |-> <<>>]

\* apiAccessData?.privileges
RemotePrivileges(data) == IF data = None THEN None ELSE Some(data[1].privileges)

\* Mutant: the fetched value takes precedence over the staged edit.
derivedPrivilegesRemoteFirst(pending, remote) ==
  Coalesce(Coalesce(remote, pending), Some(createDefaultRolePrivileges))[1]

\* tableFields.apiPrivileges ?? apiAccessData?.privileges ?? defaultPrivileges
derivedPrivilegesOf(pending, remote) ==
  Coalesce(Coalesce(pending, remote), Some(createDefaultRolePrivileges))[1]

\* Mutant: the override forgets the record being duplicated.
effectivePrivilegesNewOnly(pending, remote, exposed, isNew, isDup) ==
  IF ~exposed /\ isNew
  THEN emptyPrivileges
  ELSE derivedPrivilegesOf(pending, remote)

effectivePrivilegesOf(pending, remote, exposed, isNew, isDup) ==
  IF ~exposed /\ (isNew \/ isDup)
  THEN emptyPrivileges
  ELSE derivedPrivilegesOf(pending, remote)

\* Object.values(p).some((privs) => privs.length > 0)
isSwitchOnOf(p) == \E r \in Roles : Len(p[r]) > 0

hasAnyPrivilegesOf(p) == \E r \in Roles : Len(p[r]) # 0

totalAvailablePrivileges == Len(API_ACCESS_ROLES) * Len(API_PRIVILEGE_TYPES)

RECURSIVE SumLengths(_, _, _)
SumLengths(p, roles, acc) ==
  IF roles = <<>> THEN acc
  ELSE SumLengths(p, Tail(roles), acc + Len(p[Head(roles)]))

\* Object.values(p).reduce((acc, privileges) => acc + privileges.length, 0)
totalSelectedPrivilegesOf(p) == SumLengths(p, API_ACCESS_ROLES, 0)

hasPartialPrivilegesOf(p) ==
  totalSelectedPrivilegesOf(p) > 0
    /\ totalSelectedPrivilegesOf(p) < totalAvailablePrivileges

\* ---------------------------------------------- ApiAccessToggle (handlers)
\* Mutant: switching on always restores the default, never the snapshot.
MasterToggleAlwaysDefault(checked, exposed, effective, saved) ==
  IF ~exposed
  THEN [onChange |-> None, saved |-> saved]
  ELSE IF ~checked
       THEN [onChange |-> Some(emptyPrivileges), saved |-> Some(effective)]
       ELSE [onChange |-> Some(createDefaultRolePrivileges), saved |-> saved]

\* Mutant: the guard on the schema being exposed is missing.
MasterToggleUnguarded(checked, exposed, effective, saved) ==
  IF ~checked
  THEN [onChange |-> Some(emptyPrivileges), saved |-> Some(effective)]
  ELSE [onChange |-> Some(Coalesce(saved, Some(createDefaultRolePrivileges))[1]),
        saved |-> saved]

\* What handleMasterToggle does with the values of the current render:
\* the argument it passes to onChange (None: onChange is not called) and the
\* savedPrivileges state it leaves.
MasterToggleOutcome(checked, exposed, effective, saved) ==
  IF ~exposed
  THEN [onChange |-> None, saved |-> saved]
  ELSE IF ~checked
       THEN [onChange |-> Some(emptyPrivileges), saved |-> Some(effective)]
       ELSE [onChange |-> Some(Coalesce(saved, Some(createDefaultRolePrivileges))[1]),
             saved |-> saved]

\* Mutant: the edit is spread over the derived instead of the effective value.
PrivilegesChangeFromDefault(role, values, exposed, effective) ==
  IF ~exposed
  THEN None
  ELSE Some([createDefaultRolePrivileges EXCEPT ![role] = values])

\* What handlePrivilegesChange(role)(values) passes to onChange.
PrivilegesChangeOutcome(role, values, exposed, effective) ==
  IF ~exposed
  THEN None
  ELSE Some([effective EXCEPT ![role] = values])

\* The savedPrivileges effect of a committed render:
\* if (isSwitchOn) setSavedPrivileges(effectivePrivileges)
SyncSaved(effective, saved) ==
  IF isSwitchOnOf(effective) THEN Some(effective) ELSE saved

\* Mutant: the effect does not test that nothing is staged.
InitialLoadIgnoringStaged(pending, remote, exposed) ==
  IF exposed /\ remote # None THEN remote ELSE None

\* The onInitialLoad effect of a committed render: its argument, or None
\* when the condition of the effect does not hold.
InitialLoadArg(pending, remote, exposed) ==
  IF exposed /\ remote # None /\ pending = None THEN remote ELSE None

\* ------------------------------------------- table-api-access-mutation (pure)
\* API_PRIVILEGE_TYPES.filter((p) => !rolePrivileges.includes(p))
PrivilegesToRevoke(rolePrivileges) ==
  SelectSeq(API_PRIVILEGE_TYPES, LAMBDA k : ~Includes(rolePrivileges, k))

\* Mutant: a role with nothing to grant is skipped altogether.
RoleStatementsSkipEmpty(role, rolePrivileges) ==
  IF Len(rolePrivileges) = 0 THEN <<>>
  ELSE (IF Len(PrivilegesToRevoke(rolePrivileges)) > 0
        THEN <<[op |-> "revoke", grantee |-> role,
                kinds |-> PrivilegesToRevoke(rolePrivileges)]>>
        ELSE <<>>)
       \o <<[op |-> "grant", grantee |-> role, kinds |-> rolePrivileges]>>

\* Mutant: the grant of a role is pushed before its revoke.
RoleStatementsGrantFirst(role, rolePrivileges) ==
  (IF Len(rolePrivileges) > 0
   THEN <<[op |-> "grant", grantee |-> role, kinds |-> rolePrivileges]>>
   ELSE <<>>)
  \o
  (IF Len(PrivilegesToRevoke(rolePrivileges)) > 0
   THEN <<[op |-> "revoke", grantee |-> role,
           kinds |-> PrivilegesToRevoke(rolePrivileges)]>>
   ELSE <<>>)

\* The statements one iteration of the loop over the roles pushes. A
\* statement is the call that produced its SQL text: revoke or grant, the
\* grantee and the privilege kinds in the order of the call.
RoleStatements(role, rolePrivileges) ==
  LET privilegesToGrant == rolePrivileges
      privilegesToRevoke == PrivilegesToRevoke(rolePrivileges)
  IN  (IF Len(privilegesToRevoke) > 0
       THEN <<[op |-> "revoke", grantee |-> role, kinds |-> privilegesToRevoke]>>
       ELSE <<>>)
      \o
      (IF Len(privilegesToGrant) > 0
       THEN <<[op |-> "grant", grantee |-> role, kinds |-> privilegesToGrant]>>
       ELSE <<>>)

RECURSIVE BuildSqlStatements(_, _)
BuildSqlStatements(privileges, roles) ==
  IF roles = <<>> THEN <<>>
  ELSE RoleStatements(Head(roles), privileges[Head(roles)])
         \o BuildSqlStatements(privileges, Tail(roles))

\* ------------------------------------------------------------------- state
VARIABLES
  apiPrivileges,     \* tableFields.apiPrivileges: the staged edit (pendingEdit)
  apiAccessData,     \* data of useTableApiAccessQuery (holds remoteValue)
  isSchemaExposed,
  isNewRecord,
  isDuplicating,
  savedPrivileges,   \* useState: SavedSnapshot
  lastCall,          \* the event of the latest step and its arguments
  onChangeArg,       \* argument of onChange in the latest step, None if not called
  onInitialLoadArg,  \* argument of onInitialLoad in the latest step, None if not called
  executedSql,       \* statements handed to executeSql in the latest step
  errorReport,       \* how a failure was reported in the latest step
  toggleHist         \* effective before a toggle-off that may be followed by a toggle-on

\* ---------------------------------------------------- useRealtimeExperiment
\* Renders of one instance of the hook that the model follows.
MaxRenders == 4

\* RealtimeButtonVariant
RealtimeButtonVariants == {"control", "hide-button", "triggers"}

VARIABLES
  IS_PLATFORM,            \* lib/constants: fixed for the build
  isTable,                \* option of the latest render
  isRealtimeEnabled,      \* option of the latest render
  realtimeButtonVariant,  \* usePHFlag value of the latest render, None if absent
  hasTrackedExposure,     \* useRef(false).current
  trackedEvents,          \* the track('realtime_experiment_exposed', ...) calls
  trackedNow,             \* the effect of the latest render called track
  renders                 \* renders of the instance so far

hookVars ==
  <<IS_PLATFORM, isTable, isRealtimeEnabled, realtimeButtonVariant,
    hasTrackedExposure, trackedEvents, trackedNow, renders>>

\* Mutant: the effect does not consult hasTrackedExposure.
ShouldTrackEveryTime(platform, tracked, table, variant) ==
  platform /\ table /\ variant # None

\* The three early returns of the exposure effect.
ShouldTrackExposure(platform, tracked, table, variant) ==
  /\ platform
  /\ ~tracked
  /\ table /\ variant # None

\* The properties of the tracked event.
ExposureEvent(variant, realtimeEnabled) ==
  [experiment_id |-> "realtimeButtonVariant",
   variant |-> variant[1],
   table_has_realtime_enabled |-> realtimeEnabled]

activeVariantOf(platform, table, variant) ==
  IF platform /\ table /\ variant # None /\ variant # Some("control")
  THEN variant
  ELSE None

activeVariant == activeVariantOf(IS_PLATFORM, isTable, realtimeButtonVariant)

\* One render of the hook with the given options and flag value, and the
\* exposure effect committed with it.
RenderHook(table, realtimeEnabled, variant, tracked, events) ==
  LET fires == ShouldTrackExposure(IS_PLATFORM, tracked, table, variant)
  IN  /\ isTable' = table
      /\ isRealtimeEnabled' = realtimeEnabled
      /\ realtimeButtonVariant' = variant
      /\ hasTrackedExposure' = (tracked \/ fires)
      /\ trackedEvents' = IF fires
                          THEN Append(events, ExposureEvent(variant, realtimeEnabled))
                          ELSE events
      /\ trackedNow' = fires

\* The hook is not part of the privileges toggle: there it stays unmounted.
HookUnmounted ==
  /\ IS_PLATFORM = FALSE
  /\ isTable = FALSE
  /\ isRealtimeEnabled = FALSE
  /\ realtimeButtonVariant = None
  /\ hasTrackedExposure = FALSE
  /\ trackedEvents = <<>>
  /\ trackedNow = FALSE
  /\ renders = 0

toggleVars ==
  <<apiPrivileges, apiAccessData, isSchemaExposed, isNewRecord, isDuplicating,
    savedPrivileges, lastCall, onChangeArg, onInitialLoadArg, executedSql,
    errorReport, toggleHist>>

vars == <<toggleVars, hookVars>>

remotePrivileges == RemotePrivileges(apiAccessData)

derivedPrivileges == derivedPrivilegesOf(apiPrivileges, remotePrivileges)

effectivePrivileges ==
  effectivePrivilegesOf(apiPrivileges, remotePrivileges, isSchemaExposed,
                        isNewRecord, isDuplicating)

isSwitchOn == isSwitchOnOf(effectivePrivileges)

hasAnyPrivileges == hasAnyPrivilegesOf(effectivePrivileges)

hasPartialPrivileges == hasPartialPrivilegesOf(effectivePrivileges)

Call(op, checked, role, values) ==
  [op |-> op, checked |-> checked, role |-> role, values |-> values]

NoHist == [phase |-> "none", before |-> None]

\* The embedding form stores what onChange hands it as tableFields.apiPrivileges.
EmbeddingOnChange(arg, pending) == IF arg = None THEN pending ELSE arg

\* The embedding form may store what onInitialLoad hands it, or ignore it.
EmbeddingOnInitialLoad(arg, pending, applies) ==
  IF arg # None /\ applies THEN arg ELSE pending

\* The render after an event and the effects committed with it: the
\* onInitialLoad effect, the embedding's reaction to it, and the
\* savedPrivileges effect on the effective value finally rendered.
Commit(pending, data, exposed, saved) ==
  \E applies \in IF InitialLoadArg(pending, RemotePrivileges(data), exposed) = None
                 THEN {FALSE} ELSE BOOLEAN :
    LET arg == InitialLoadArg(pending, RemotePrivileges(data), exposed)
        pending2 == EmbeddingOnInitialLoad(arg, pending, applies)
        eff == effectivePrivilegesOf(pending2, RemotePrivileges(data), exposed,
                                     isNewRecord, isDuplicating)
    IN  /\ apiPrivileges' = pending2
        /\ apiAccessData' = data
        /\ isSchemaExposed' = exposed
        /\ savedPrivileges' = SyncSaved(eff, saved)
        /\ onInitialLoadArg' = arg

\* The first render: nothing staged, nothing fetched.
Init ==
  /\ apiPrivileges = None
  /\ apiAccessData = None
  /\ isSchemaExposed \in BOOLEAN
  /\ isNewRecord \in BOOLEAN
  /\ isDuplicating \in BOOLEAN
  /\ savedPrivileges =
       SyncSaved(effectivePrivilegesOf(None, None, isSchemaExposed,
                                       isNewRecord, isDuplicating), None)
  /\ lastCall = Call("mount", FALSE, "", <<>>)
  /\ onChangeArg = None
  /\ onInitialLoadArg = None
  /\ executedSql = <<>>
  /\ errorReport = "none"
  /\ toggleHist = NoHist
  /\ HookUnmounted

\* ----------------------------------------------------------------- actions
\* The postgrest config query delivers a db_schema that lists the schema or not.
SchemaExposureChange(exposed) ==
  /\ exposed # isSchemaExposed
  /\ Commit(apiPrivileges, apiAccessData, exposed, savedPrivileges)
  /\ lastCall' = Call("config", exposed, "", <<>>)
  /\ onChangeArg' = None
  /\ executedSql' = <<>>
  /\ errorReport' = "none"
  /\ toggleHist' = NoHist
  /\ UNCHANGED <<isNewRecord, isDuplicating, hookVars>>

\* The table privileges query, enabled unless the record is new or being
\* duplicated, delivers data; select maps it for the relation.
RemoteFetch(result) ==
  /\ ~isNewRecord /\ ~isDuplicating
  /\ Commit(apiPrivileges, Some(result), isSchemaExposed, savedPrivileges)
  /\ lastCall' = Call("fetch", FALSE, "", <<>>)
  /\ onChangeArg' = None
  /\ executedSql' = <<>>
  /\ errorReport' = "none"
  /\ toggleHist' = NoHist
  /\ UNCHANGED <<isNewRecord, isDuplicating, hookVars>>

handleMasterToggle(checked) ==
  LET out == MasterToggleOutcome(checked, isSchemaExposed, effectivePrivileges,
                                 savedPrivileges)
  IN  /\ IF out.onChange = None
         THEN UNCHANGED <<apiPrivileges, apiAccessData, isSchemaExposed,
                          savedPrivileges, onInitialLoadArg>>
         ELSE Commit(EmbeddingOnChange(out.onChange, apiPrivileges),
                     apiAccessData, isSchemaExposed, out.saved)
      /\ onChangeArg' = out.onChange
      /\ lastCall' = Call("toggle", checked, "", <<>>)
      /\ toggleHist' =
           IF ~checked
           THEN [phase |-> "off", before |-> Some(effectivePrivileges)]
           ELSE IF toggleHist.phase = "off"
                THEN [phase |-> "offon", before |-> toggleHist.before]
                ELSE NoHist
      /\ executedSql' = <<>>
      /\ errorReport' = "none"
      /\ UNCHANGED <<isNewRecord, isDuplicating, hookVars>>

handlePrivilegesChange(role, values) ==
  LET arg == PrivilegesChangeOutcome(role, values, isSchemaExposed,
                                     effectivePrivileges)
  IN  /\ IF arg = None
         THEN UNCHANGED <<apiPrivileges, apiAccessData, isSchemaExposed,
                          savedPrivileges, onInitialLoadArg>>
         ELSE Commit(EmbeddingOnChange(arg, apiPrivileges), apiAccessData,
                     isSchemaExposed, savedPrivileges)
      /\ onChangeArg' = arg
      /\ lastCall' = Call("edit", FALSE, role, values)
      /\ toggleHist' = NoHist
      /\ executedSql' = <<>>
      /\ errorReport' = "none"
      /\ UNCHANGED <<isNewRecord, isDuplicating, hookVars>>

\* Mutant: the failure is always shown as a toast, the caller's onError ignored.
MutationErrorAlwaysToast(fails, hasOnError) ==
  IF ~fails THEN "none" ELSE "toast"

\* onError of useTableApiAccessPrivilegesMutation: a toast with the message
\* of the failure when the caller gave no onError, the caller's onError
\* otherwise; nothing is reported when executeSql succeeds.
MutationErrorReport(fails, hasOnError) ==
  IF ~fails THEN "none"
  ELSE IF hasOnError THEN "onError" ELSE "toast"

\* The embedding form saves the staged privileges through the mutation;
\* executeSql may fail, and the caller may have supplied its own onError.
updateTableApiAccessPrivileges(fails, hasOnError) ==
  /\ apiPrivileges # None
  /\ LET sqlStatements == BuildSqlStatements(apiPrivileges[1], API_ACCESS_ROLES)
     IN  IF Len(sqlStatements) = 0
         THEN /\ executedSql' = <<>>
              /\ errorReport' = "none"
         ELSE /\ executedSql' = sqlStatements
              /\ errorReport' = MutationErrorReport(fails, hasOnError)
  /\ lastCall' = Call("mutate", fails, "", <<>>)
  /\ onChangeArg' = None
  /\ onInitialLoadArg' = None
  /\ toggleHist' = NoHist
  /\ UNCHANGED <<apiPrivileges, apiAccessData, isSchemaExposed, isNewRecord,
                 isDuplicating, savedPrivileges, hookVars>>

Next ==
  \/ \E exposed \in BOOLEAN : SchemaExposureChange(exposed)
  \/ \E result \in FetchResults : RemoteFetch(result)
  \/ \E checked \in BOOLEAN : handleMasterToggle(checked)
  \/ \E role \in Roles, values \in KindSeqs : handlePrivilegesChange(role, values)
  \/ \E fails \in BOOLEAN, hasOnError \in BOOLEAN :
       updateTableApiAccessPrivileges(fails, hasOnError)

Spec == Init /\ [][Next]_vars

\* ------------------------------------------- useRealtimeExperiment (machine)
\* The toggle as it is mounted, left alone while the hook is followed.
ToggleIdle ==
  /\ apiPrivileges = None
  /\ apiAccessData = None
  /\ isSchemaExposed = TRUE
  /\ isNewRecord = FALSE
  /\ isDuplicating = FALSE
  /\ savedPrivileges = Some(createDefaultRolePrivileges)
  /\ lastCall = Call("mount", FALSE, "", <<>>)
  /\ onChangeArg = None
  /\ onInitialLoadArg = None
  /\ executedSql = <<>>
  /\ errorReport = "none"
  /\ toggleHist = NoHist

\* The first render of an instance and its effect: the ref starts false.
ExperimentInit ==
  /\ ToggleIdle
  /\ IS_PLATFORM \in BOOLEAN
  /\ isTable \in BOOLEAN
  /\ isRealtimeEnabled \in BOOLEAN
  /\ realtimeButtonVariant \in {None} \cup {Some(v) : v \in RealtimeButtonVariants}
  /\ trackedNow =
       ShouldTrackExposure(IS_PLATFORM, FALSE, isTable, realtimeButtonVariant)
  /\ hasTrackedExposure = trackedNow
  /\ trackedEvents = IF trackedNow
                     THEN <<ExposureEvent(realtimeButtonVariant, isRealtimeEnabled)>>
                     ELSE <<>>
  /\ renders = 1

\* A re-render with any options and any flag value.
Rerender(table, realtimeEnabled, variant) ==
  /\ renders < MaxRenders
  /\ renders' = renders + 1
  /\ RenderHook(table, realtimeEnabled, variant, hasTrackedExposure, trackedEvents)
  /\ UNCHANGED <<IS_PLATFORM, toggleVars>>

ExperimentNext ==
  \E table \in BOOLEAN, realtimeEnabled \in BOOLEAN,
     variant \in {None} \cup {Some(v) : v \in RealtimeButtonVariants} :
    Rerender(table, realtimeEnabled, variant)

ExperimentSpec == ExperimentInit /\ [][ExperimentNext]_vars

\* ------------------------------------------------------------------ claims
\* The example value of the specification: anon may select, authenticated nothing.
ExamplePrivileges == [r \in Roles |-> IF r = "anon" THEN <<"SELECT">> ELSE <<>>]

AllFourKinds == <<"SELECT", "INSERT", "UPDATE", "DELETE">>

\* C1: setMasterEnabled(false) directly followed by setMasterEnabled(true),
\* each emitted pendingEdit applied by the embedding form, leaves the
\* effective privileges equal, role by role, to their value before the
\* first call.
C1_OffThenOnRestores ==
  toggleHist.phase = "offon" =>
    /\ toggleHist.before # None
    /\ \A r \in Roles : effectivePrivileges[r] = toggleHist.before[1][r]

\* C1 witness: the example of the specification, remote {anon:[SELECT],
\* authenticated:[]}, switched off and on again on an exposed schema.
C1_Witness ==
  /\ toggleHist.phase = "offon"
  /\ isSchemaExposed
  /\ remotePrivileges = Some(ExamplePrivileges)
  /\ toggleHist.before = Some(ExamplePrivileges)
  /\ onChangeArg = Some(ExamplePrivileges)
  /\ effectivePrivileges = ExamplePrivileges

\* The empty override of the derivation applies.
OverrideApplies == ~isSchemaExposed /\ (isNewRecord \/ isDuplicating)

\* C2: when the empty override does not apply, the effective privileges are
\* the staged edit if present, else the fetched value if present, else the
\* default in which every role holds all four kinds.
C2_Precedence ==
  ~OverrideApplies =>
    /\ apiPrivileges # None => effectivePrivileges = apiPrivileges[1]
    /\ (apiPrivileges = None /\ remotePrivileges # None) =>
         effectivePrivileges = remotePrivileges[1]
    /\ (apiPrivileges = None /\ remotePrivileges = None) =>
         \A r \in Roles : effectivePrivileges[r] = AllFourKinds

\* C2 witness: a staged edit and a different fetched value are both present.
C2_Witness ==
  /\ ~OverrideApplies
  /\ apiPrivileges # None
  /\ remotePrivileges # None
  /\ apiPrivileges # remotePrivileges
  /\ isSwitchOnOf(remotePrivileges[1])
  /\ lastCall.op = "fetch"

\* C3: with the schema not exposed and the record new or being duplicated,
\* every role's effective list is empty, whatever is staged or fetched.
C3_EmptyOverride ==
  OverrideApplies => \A r \in Roles : effectivePrivileges[r] = <<>>

\* C3 witness: a record being duplicated (not new) on a schema that is not
\* exposed any more, with a non-empty staged edit.
C3_Witness ==
  /\ ~isSchemaExposed
  /\ isDuplicating
  /\ ~isNewRecord
  /\ apiPrivileges # None
  /\ isSwitchOnOf(apiPrivileges[1])
  /\ lastCall.op = "config"

C5_EditFrame ==
  [][(isSchemaExposed /\ lastCall'.op = "edit") =>
       /\ onChangeArg' # None
       /\ onChangeArg'[1][lastCall'.role] = lastCall'.values
       /\ \A other \in Roles \ {lastCall'.role} :
            onChangeArg'[1][other] = effectivePrivileges[other]]_vars

\* C5 witness: an edit on an exposed schema has emitted a value in which
\* the roles differ and neither is empty nor the default.
C5_Witness ==
  /\ lastCall.op = "edit"
  /\ isSchemaExposed
  /\ onChangeArg # None
  /\ apiPrivileges = onChangeArg
  /\ \A r \in Roles : onChangeArg[1][r] \notin {<<>>, AllFourKinds}
  /\ onChangeArg[1]["anon"] # onChangeArg[1]["authenticated"]

\* C6: while the schema is not exposed, setMasterEnabled(checked) and
\* setRolePrivileges(role, kinds) emit nothing through onChange and leave
\* SavedSnapshot (and the staged edit) as they were.
C6_NoOpWhenNotExposed ==
  [][(~isSchemaExposed /\ lastCall'.op \in {"toggle", "edit"}) =>
       /\ onChangeArg' = None
       /\ savedPrivileges' = savedPrivileges
       /\ apiPrivileges' = apiPrivileges]_vars

\* C6 witness: the master switch was switched off while the schema was not
\* exposed, on an existing record whose privileges are shown as granted.
C6_Witness ==
  /\ lastCall.op = "toggle"
  /\ ~lastCall.checked
  /\ ~isSchemaExposed
  /\ ~isNewRecord /\ ~isDuplicating
  /\ isSwitchOn
  /\ onChangeArg = None

Elements(seq) == {seq[i] : i \in 1..Len(seq)}

FixedKinds == {"SELECT", "INSERT", "UPDATE", "DELETE"}

OnlyFixedKinds(optional) ==
  optional # None => \A r \in Roles : Elements(optional[1][r]) \subseteq FixedKinds

\* C8: after any sequence of fetches, toggles and edits every role's
\* effective list holds only SELECT, INSERT, UPDATE and DELETE; a fetched
\* grant of another kind is dropped by mapPrivilegesToApiAccess and shows
\* neither in effective nor in SavedSnapshot nor in an emitted pendingEdit.
C8_OnlyFixedKinds ==
  /\ OnlyFixedKinds(Some(effectivePrivileges))
  /\ OnlyFixedKinds(remotePrivileges)
  /\ OnlyFixedKinds(savedPrivileges)
  /\ OnlyFixedKinds(onChangeArg)
  /\ OnlyFixedKinds(onInitialLoadArg)
  /\ OnlyFixedKinds(apiPrivileges)

\* C8 witness: the value fetched last, now effective and saved, is the
\* mapping of a query result in which anon holds a grant of another kind.
C8_Witness ==
  /\ lastCall.op = "fetch"
  /\ isSchemaExposed
  /\ apiPrivileges = None
  /\ remotePrivileges = Some(effectivePrivileges)
  /\ savedPrivileges = Some(effectivePrivileges)
  /\ effectivePrivileges["anon"] = <<"SELECT", "INSERT">>
  /\ \E data \in PrivilegesData :
       /\ mapPrivilegesToApiAccess(data, 7, "public", "t") = apiAccessData[1]
       /\ \E i \in 1..Len(data) :
            /\ data[i].relation_id = 7
            /\ \E j \in 1..Len(data[i].privileges) :
                 /\ data[i].privileges[j].grantee = "anon"
                 /\ data[i].privileges[j].privilege_type \notin FixedKinds

AllEmpty(p) == \A r \in Roles : p[r] = <<>>

Saturated(p) == \A r \in Roles : FixedKinds \subseteq Elements(p[r])

\* C9: isPartiallyGranted is false when effective is empty for every role,
\* false when every role holds all four kinds, and true otherwise;
\* isAnyPrivilegeGranted is true exactly when some role's list is non-empty.
C9_PartialExactly ==
  /\ hasPartialPrivileges <=>
       (~AllEmpty(effectivePrivileges) /\ ~Saturated(effectivePrivileges))
  /\ hasAnyPrivileges <=> (\E r \in Roles : effectivePrivileges[r] # <<>>)

StatementsOf(role) ==
  {i \in 1..Len(executedSql) : executedSql[i].grantee = role}

\* C10 as claimed: a role whose desired list equals its currently granted
\* (fetched) list contributes no statement to the SQL that is executed.
C10_OnlyChangedRoles ==
  (lastCall.op = "mutate" /\ remotePrivileges # None) =>
    \A r \in Roles :
      apiPrivileges[1][r] = remotePrivileges[1][r] => StatementsOf(r) = {}

\* C10 as amended: the mutation issues statements for every role of
\* API_ACCESS_ROLES, whether or not the role's desired list differs from
\* its currently granted one: each role contributes at least one statement.
C10_EveryRoleIssued ==
  lastCall.op = "mutate" => \A r \in Roles : StatementsOf(r) # {}

\* C10 witness: a mutation whose desired lists equal the fetched lists of
\* both roles, one of them empty, has executed statements for both roles.
C10_Witness ==
  /\ lastCall.op = "mutate"
  /\ remotePrivileges # None
  /\ apiPrivileges = remotePrivileges
  /\ apiPrivileges[1]["authenticated"] = <<>>
  /\ apiPrivileges[1]["anon"] = <<"SELECT">>
  /\ \A r \in Roles : StatementsOf(r) # {}

\* The statements of one kind (revoke or grant) executed for a role.
StatementsOfOp(role, op) ==
  {i \in StatementsOf(role) : executedSql[i].op = op}

\* The kinds named by the statements of one kind executed for a role.
KindsOfOp(role, op) ==
  UNION {Elements(executedSql[i].kinds) : i \in StatementsOfOp(role, op)}

\* C11: for each role the mutation processes, the revoked kinds are the
\* fixed kinds absent from the desired list and the granted kinds are the
\* desired list, so the two are disjoint and cover all four kinds; the
\* revoke of a role precedes its grant, and the statements of anon precede
\* those of authenticated.
C11_RevokeComplementGrantDesired ==
  lastCall.op = "mutate" =>
    /\ \A r \in Roles :
         /\ KindsOfOp(r, "revoke") = FixedKinds \ Elements(apiPrivileges[1][r])
         /\ \A i \in StatementsOfOp(r, "grant") :
              executedSql[i].kinds = apiPrivileges[1][r]
         /\ (apiPrivileges[1][r] # <<>>) => StatementsOfOp(r, "grant") # {}
         /\ Cardinality(StatementsOfOp(r, "revoke")) <= 1
         /\ Cardinality(StatementsOfOp(r, "grant")) <= 1
         /\ KindsOfOp(r, "revoke") \cap KindsOfOp(r, "grant") = {}
         /\ KindsOfOp(r, "revoke") \cup KindsOfOp(r, "grant") = FixedKinds
         /\ \A i \in StatementsOfOp(r, "revoke"), j \in StatementsOfOp(r, "grant") :
              i < j
    /\ \A i \in StatementsOf("anon"), j \in StatementsOf("authenticated") : i < j
    /\ \A i \in 1..Len(executedSql) : executedSql[i].grantee \in Roles

\* C11 witness: a mutation for two partial lists has executed a revoke and
\* a grant for anon and then a revoke and a grant for authenticated.
C11_Witness ==
  /\ lastCall.op = "mutate"
  /\ apiPrivileges = Some([r \in Roles |->
                             IF r = "anon" THEN <<"SELECT">>
                             ELSE <<"SELECT", "INSERT", "UPDATE">>])
  /\ Len(executedSql) = 4
  /\ executedSql[1] = [op |-> "revoke", grantee |-> "anon",
                       kinds |-> <<"INSERT", "UPDATE", "DELETE">>]
  /\ executedSql[4] = [op |-> "grant", grantee |-> "authenticated",
                       kinds |-> <<"SELECT", "INSERT", "UPDATE">>]

\* C12: a failed privilege mutation leaves the staged edit, the effective
\* privileges and SavedSnapshot unchanged; the failure is only reported,
\* through the caller's onError when there is one and through a toast
\* otherwise; afterwards the toggle, the edits and the mutation can be
\* issued again, and a retried mutation executes the same statements.
C12_FailedMutationKeepsEdit ==
  /\ [][(lastCall'.op = "mutate" /\ lastCall'.checked) =>
          /\ apiPrivileges' = apiPrivileges
          /\ savedPrivileges' = savedPrivileges
          /\ effectivePrivileges' = effectivePrivileges
          /\ onChangeArg' = None
          /\ \A hasOnError \in BOOLEAN :
               updateTableApiAccessPrivileges(TRUE, hasOnError) =>
                 errorReport' = IF hasOnError THEN "onError" ELSE "toast"]_vars
  /\ [][(lastCall.op = "mutate" /\ lastCall.checked /\ lastCall'.op = "mutate") =>
          executedSql' = executedSql]_vars
  /\ []((lastCall.op = "mutate" /\ lastCall.checked) =>
          /\ apiPrivileges # None
          /\ errorReport \in {"onError", "toast"}
          /\ ENABLED updateTableApiAccessPrivileges(FALSE, FALSE)
          /\ \A checked \in BOOLEAN : ENABLED handleMasterToggle(checked)
          /\ \A role \in Roles, values \in KindSeqs :
               ENABLED handlePrivilegesChange(role, values))

\* C12 witness: a mutation of a staged edit made by a toggle-off has failed
\* and was reported through the caller's onError; the edit is still staged.
C12_Witness ==
  /\ lastCall.op = "mutate"
  /\ lastCall.checked
  /\ errorReport = "onError"
  /\ apiPrivileges = Some(emptyPrivileges)
  /\ savedPrivileges # None
  /\ isSwitchOnOf(savedPrivileges[1])
  /\ isSchemaExposed
  /\ Len(executedSql) = 2

\* C13: onInitialLoad is invoked only with the schema exposed, a fetched
\* value present and nothing staged, and its argument is the effective
\* value; once an edit is staged it stays staged and onInitialLoad is not
\* invoked again, so a later fetch leaves the staged edit as it is.
C13_InitialLoadOnlyBeforeEdit ==
  /\ [][onInitialLoadArg' # None =>
          /\ apiPrivileges = None
          /\ isSchemaExposed'
          /\ remotePrivileges' # None
          /\ onInitialLoadArg' = remotePrivileges'
          /\ onInitialLoadArg' = Some(effectivePrivileges')
          /\ apiPrivileges' \in {None, onInitialLoadArg'}]_vars
  /\ [][apiPrivileges # None =>
          /\ onInitialLoadArg' = None
          /\ apiPrivileges' # None
          /\ (lastCall'.op \in {"fetch", "config", "mutate"}) =>
               apiPrivileges' = apiPrivileges]_vars

\* C13 witness: the first fetch on an exposed schema has invoked
\* onInitialLoad with the example value and the embedding form staged it.
C13_Witness ==
  /\ lastCall.op = "fetch"
  /\ isSchemaExposed
  /\ onInitialLoadArg = Some(ExamplePrivileges)
  /\ apiPrivileges = onInitialLoadArg
  /\ remotePrivileges = onInitialLoadArg
  /\ effectivePrivileges = ExamplePrivileges

\* C14: for one instance of useRealtimeExperiment, over any sequence of
\* re-renders with arbitrary isTable, isRealtimeEnabled and flag value, the
\* 'realtime_experiment_exposed' event is tracked at most once, and the render
\* whose effect tracks it has IS_PLATFORM true, isTable true and a flag value
\* present; the event carries that render's flag value (control included,
\* for which activeVariant is null) and its isRealtimeEnabled.
C14_ExposureTrackedOnce ==
  /\ Len(trackedEvents) <= 1
  /\ hasTrackedExposure <=> (Len(trackedEvents) = 1)
  /\ trackedNow =>
       /\ IS_PLATFORM /\ isTable /\ realtimeButtonVariant # None
       /\ trackedEvents =
            <<ExposureEvent(realtimeButtonVariant, isRealtimeEnabled)>>
  /\ \A i \in 1..Len(trackedEvents) :
       trackedEvents[i].variant \in RealtimeButtonVariants

\* The control variant was tracked by an earlier render, and a later render
\* that again meets every condition of the effect tracked nothing.
C14_Witness ==
  /\ renders >= 3
  /\ IS_PLATFORM /\ isTable /\ realtimeButtonVariant = Some("triggers")
  /\ activeVariant = Some("triggers")
  /\ ~trackedNow /\ hasTrackedExposure
  /\ Len(trackedEvents) = 1
  /\ trackedEvents[1].variant = "control"
  /\ trackedEvents[1].table_has_realtime_enabled # isRealtimeEnabled

====
